---- MODULE Spec2Model ----
(***************************************************************************)
(* Streaming session subsystem of the Tardis Machine client                *)
(* (src/src/machine/client.rs): Client::replay_normalized,                 *)
(* Client::stream_normalized, websocket_conn and heartbeat.                *)
(*                                                                         *)
(* A session is one successful open call.  Its produced sequence is the    *)
(* async_stream generator of websocket_conn; the consumer drives it with   *)
(* next() and may drop it.  The heartbeat is a detached tokio task.        *)
(***************************************************************************)
EXTENDS Integers, Sequences, FiniteSets, TLC

VARIABLES
    opens,      \* number of open calls made so far
    attempts,   \* number of connect_async calls made so far
    nonEmpty,   \* number of open calls made with a non-empty options list
    lastOpen,   \* the most recent open call: inputs, target and result
    nsess,      \* number of sequences returned so far (sessions 1..nsess)
    gen,        \* gen[s]: position of the generator of session s
    pending,    \* pending[s]: a consumer next() is outstanding
    recv,       \* recv[s]: results of reader.next(), in arrival order
    items,      \* items[s]: items yielded to the consumer, in order
    hb,         \* hb[s]: the heartbeat task spawned by session s
    wire,       \* wire[s]: frames the client put on the write half
    now,        \* wall clock, in seconds
    exchange,   \* a member of Exchange (its index), 0 when none is chosen
    rendered,   \* what to_string returned for it, <<>> before the call
    parsed      \* the member deserialized from rendered: 0 before the
                \* call, -1 when deserializing failed

vars == <<opens, attempts, nonEmpty, lastOpen, nsess, gen, pending, recv,
          items, hb, wire, now, exchange, rendered, parsed>>

exchVars == <<exchange, rendered, parsed>>

----------------------------------------------------------------------------
(* Bounds of the model.                                                    *)

MaxOpens == 2
MaxSessions == 2
MaxOpts == 1

MaxUrlOpts == 2

MaxLiveTime == 2
MaxFrames == 3
MaxTime == 12

Sessions == 1..MaxSessions

----------------------------------------------------------------------------
(* Errors (enum Error).  One record shape for every variant; the fields a  *)
(* variant does not carry hold the neutral value.                          *)

EmptyOptions == [tag |-> "EmptyOptions", status |-> 0, reason |-> <<>>]

ConnectFailed == [tag |-> "ConnectFailed", status |-> 0, reason |-> <<>>]

(* ConnectFailed(e): the variant wraps the tungstenite error e.            *)
ConnectFailedOf(e) == [tag |-> "ConnectFailed", status |-> 0, reason |-> e]

ConnectRejected(status, reason) ==
    [tag |-> "ConnectRejected", status |-> status, reason |-> reason]

ConnectionClosed(reason) ==
    [tag |-> "ConnectionClosed", status |-> 0, reason |-> reason]

Deserialization == [tag |-> "Deserialization", status |-> 0, reason |-> <<>>]

NoError == [tag |-> "none", status |-> 0, reason |-> <<>>]

(* Text is a sequence of characters; a literal is a one-element text.      *)
UnknownReason == <<"Unknown reason">>

----------------------------------------------------------------------------
(* Request options and the connection target.                              *)

Options == {"o1", "o2"}

RECURSIVE SeqsUpTo(_, _)
SeqsUpTo(S, n) ==
    IF n = 0 THEN {<<>>}
    ELSE LET shorter == SeqsUpTo(S, n - 1)
         IN  shorter \cup {Append(q, x) : q \in shorter, x \in S}

OptionLists == SeqsUpTo(Options, MaxOpts)

(* serde_json::to_string of a Vec: compact JSON, "[" e1 "," e2 ... "]",    *)
(* each element an object.                                                 *)
RECURSIVE JsonElems(_)
JsonElems(options) ==
    IF options = <<>> THEN <<>>
    ELSE LET e == <<"{", Head(options), "}">>
         IN  IF Len(options) = 1 THEN e
             ELSE e \o <<",">> \o JsonElems(Tail(options))

ToJson(options) == <<"[">> \o JsonElems(options) \o <<"]">>

(* urlencoding::encode: unreserved characters are kept, every other byte   *)
(* becomes %XX.                                                            *)
EncodeChar(c) ==
    CASE c = "[" -> "%5B"
      [] c = "]" -> "%5D"
      [] c = "{" -> "%7B"
      [] c = "}" -> "%7D"
      [] c = "," -> "%2C"
      [] OTHER -> c

UrlEncode(text) == [i \in 1..Len(text) |-> EncodeChar(text[i])]

BaseUrl == "ws://machine"

ReplayPath == "/ws-replay-normalized"

StreamPath == "/ws-stream-normalized"

StreamUrlReplayPath(options) ==
    <<BaseUrl, ReplayPath, "?options=">> \o UrlEncode(ToJson(options))

ReplayUrl(options) ==
    <<BaseUrl, ReplayPath, "?options=">> \o UrlEncode(ToJson(options))

StreamUrl(options) ==
    <<BaseUrl, StreamPath, "?options=">> \o UrlEncode(ToJson(options))

----------------------------------------------------------------------------
(* Outcomes of connect_async: a transport error, or an upgrade response    *)
(* with a status and an optional body of bytes.                            *)

SWITCHING_PROTOCOLS == 101

Statuses == {SWITCHING_PROTOCOLS, 200, 403}

InvalidByte == "\\xFF"

NoBody == [some |-> FALSE, bytes |-> <<>>]

Bodies ==
    { NoBody,
      [some |-> TRUE,  bytes |-> <<"n", "o">>],
      [some |-> TRUE,  bytes |-> <<"n", InvalidByte>>] }

(* No connect_async call was made.                                         *)
NoConn == [ok |-> FALSE, status |-> -1, body |-> NoBody]

ConnectOutcomes ==
    { [ok |-> FALSE, status |-> 0, body |-> NoBody] }
    \cup { [ok |-> TRUE, status |-> st, body |-> b] :
             st \in Statuses \ {SWITCHING_PROTOCOLS}, b \in Bodies }
    \cup { [ok |-> TRUE, status |-> SWITCHING_PROTOCOLS, body |-> NoBody] }

(* String::from_utf8_lossy: invalid bytes become U+FFFD.                   *)
FromUtf8Lossy(bytes) ==
    [i \in 1..Len(bytes) |->
        IF bytes[i] = InvalidByte THEN "\\uFFFD" ELSE bytes[i]]

ConnErrorNoStatusCheck(c) ==
    IF ~c.ok THEN ConnectFailed ELSE NoError

(* websocket_conn, up to the point where the sequence is returned:         *)
(* the error it returns for a connect outcome, NoError when it returns Ok. *)
ConnError(c) ==
    IF ~c.ok THEN ConnectFailed
    ELSE IF c.status # SWITCHING_PROTOCOLS
         THEN IF c.body.some
              THEN ConnectRejected(c.status, FromUtf8Lossy(c.body.bytes))
              ELSE ConnectRejected(c.status, UnknownReason)
         ELSE NoError

----------------------------------------------------------------------------
(* Messages (enum Message, internally tagged by "type", snake_case).       *)

KnownTags ==
    {"trade", "book_change", "derivative_ticker", "book_snapshot",
     "trade_bar", "disconnect"}

VariantOfTradeBarAsTrade(tag) ==
    CASE tag = "trade" -> "Trade"
      [] tag = "book_change" -> "BookChange"
      [] tag = "derivative_ticker" -> "DerivativeTicker"
      [] tag = "book_snapshot" -> "BookSnapshot"
      [] tag = "trade_bar" -> "Trade"
      [] tag = "disconnect" -> "Disconnect"
      [] OTHER -> "none"

VariantOf(tag) ==
    CASE tag = "trade" -> "Trade"
      [] tag = "book_change" -> "BookChange"
      [] tag = "derivative_ticker" -> "DerivativeTicker"
      [] tag = "book_snapshot" -> "BookSnapshot"
      [] tag = "trade_bar" -> "TradeBar"
      [] tag = "disconnect" -> "Disconnect"
      [] OTHER -> "none"

(* A text payload: whether it is JSON at all, the value of its "type"      *)
(* member ("" when it has none), whether the members of the tagged variant *)
(* are present and well typed, and the data it carries.                    *)
Payload(json, type, fields, id) ==
    [json |-> json, type |-> type, fields |-> fields, id |-> id]

NoPayload == Payload(FALSE, "", FALSE, 0)

NoMessage == [variant |-> "none", id |-> 0]

(* An item of the produced sequence: Ok(message) or Err(error).            *)
Ok(m) == [ok |-> TRUE, msg |-> m, err |-> NoError]

Err(e) == [ok |-> FALSE, msg |-> NoMessage, err |-> e]

(* serde_json::from_str::<Message>, with the Error conversion of `?`.      *)
Decode(p) ==
    IF ~p.json THEN Err(Deserialization)
    ELSE IF p.type \notin KnownTags THEN Err(Deserialization)
    ELSE IF ~p.fields THEN Err(Deserialization)
    ELSE Ok([variant |-> VariantOf(p.type), id |-> p.id])

----------------------------------------------------------------------------
(* What reader.next() can return: a frame, a transport error, or the end   *)
(* of the stream.                                                          *)

CloseCodes == {"Normal", "Away"}

Read(kind, hasClose, code, reason, text) ==
    [kind |-> kind, hasClose |-> hasClose, code |-> code, reason |-> reason,
     text |-> text]

Plain(kind) == Read(kind, FALSE, "", <<>>, NoPayload)

Close(code, reason) == Read("Close", TRUE, code, reason, NoPayload)

CloseNone == Read("Close", FALSE, "", <<>>, NoPayload)

Text(p) == Read("Text", FALSE, "", <<>>, p)

(* Some(Err(e)) from reader.next(): a transport error e.                   *)
ReadErr(e) == Read("ReadErr", FALSE, "", e, NoPayload)

TransportErrors == {<<"reset">>, <<"protocol">>}

Reasons == {<<>>, <<"maintenance">>}

SessionPayloads ==
    { Payload(TRUE, "trade", TRUE, 1),
      Payload(TRUE, "book_change", TRUE, 2),
      Payload(FALSE, "", FALSE, 3),
      Payload(TRUE, "", TRUE, 4),
      Payload(TRUE, "quote", TRUE, 5) }

Ignorable == {"Frame", "Binary", "Pong", "Ping"}

ReadResults ==
    { Plain(k) : k \in Ignorable \cup {"Eof"} }
    \cup { ReadErr(e) : e \in TransportErrors }
    \cup { Close(c, r) : c \in CloseCodes, r \in Reasons }
    \cup { CloseNone }
    \cup { Text(p) : p \in SessionPayloads }

(* One turn of the read loop on the result r of reader.next(): the item it *)
(* yields (some = FALSE when it yields none) and where the generator is    *)
(* afterwards.  "next": awaiting reader.next() again; "y170", "y184",      *)
(* "yTry": suspended at the yield of an error, before the break or return  *)
(* that follows it; "done": the loop was left.                             *)
Turn(some, item, pc) == [some |-> some, item |-> item, pc |-> pc]

NoItem == Err(NoError)

(* None: the connection yields no further frame.                           *)
OnNoneSilent == Turn(FALSE, NoItem, "done")

OnNone == Turn(TRUE, Err(ConnectionClosed(UnknownReason)), "y184")

(* Some(Err(e)): `msg?` yields Err(e.into()) and returns.                  *)
OnReadErrContinues(r) == Turn(TRUE, Err(ConnectFailedOf(r.reason)), "next")

OnReadErr(r) == Turn(TRUE, Err(ConnectFailedOf(r.reason)), "yTry")

(* Frame, Binary, Pong (no action) and Ping (logged only).                 *)
OnIgnoredBreak(r) ==
    IF r.kind = "Pong" THEN Turn(FALSE, NoItem, "done")
    ELSE Turn(FALSE, NoItem, "next")

OnIgnored(r) == Turn(FALSE, NoItem, "next")

(* Close(frame).                                                           *)
OnCloseFixedReason(r) ==
    IF r.hasClose /\ r.code # "Normal"
    THEN Turn(TRUE, Err(ConnectionClosed(UnknownReason)), "y170")
    ELSE Turn(FALSE, NoItem, "done")

OnCloseNoPayloadCheck(r) ==
    IF r.code # "Normal"
    THEN Turn(TRUE, Err(ConnectionClosed(r.reason)), "y170")
    ELSE Turn(FALSE, NoItem, "done")

OnCloseNoBreak(r) ==
    IF r.hasClose /\ r.code # "Normal"
    THEN Turn(TRUE, Err(ConnectionClosed(r.reason)), "next")
    ELSE Turn(FALSE, NoItem, "done")

OnClose(r) ==
    IF r.hasClose /\ r.code # "Normal"
    THEN Turn(TRUE, Err(ConnectionClosed(r.reason)), "y170")
    ELSE Turn(FALSE, NoItem, "done")

(* Text(msg): `yield Ok(from_str(&msg)?)`.                                 *)
OnTextSwallow(r) ==
    LET d == Decode(r.text)
    IN  IF d.ok THEN Turn(TRUE, d, "next")
        ELSE Turn(FALSE, NoItem, "next")

OnTextSkipsBookChange(r) ==
    LET d == Decode(r.text)
    IN  IF d.ok
        THEN IF d.msg.variant = "BookChange" THEN Turn(FALSE, NoItem, "next")
             ELSE Turn(TRUE, d, "next")
        ELSE Turn(TRUE, d, "yTry")

OnText(r) ==
    LET d == Decode(r.text)
    IN  IF d.ok THEN Turn(TRUE, d, "next")
        ELSE Turn(TRUE, d, "yTry")

ReadLoop(r) ==
    CASE r.kind = "Eof" -> OnNone
      [] r.kind = "ReadErr" -> OnReadErr(r)
      [] r.kind \in {"Frame", "Binary", "Pong", "Ping"} -> OnIgnored(r)
      [] r.kind = "Close" -> OnClose(r)
      [] r.kind = "Text" -> OnText(r)

----------------------------------------------------------------------------
(* Heartbeat task (async fn heartbeat).                                    *)

Period == 10

Pace == 1

Retries == 3

(* pc "none": never spawned; "tick10": awaiting the 10 s interval;         *)
(* "tick1": in the burst, awaiting the 1 s interval.  due10 and due1 are   *)
(* the next deadlines of the two intervals (the first tick of a tokio      *)
(* interval completes at once); tries are the times of the send attempts.  *)
NoHeartbeat ==
    [pc |-> "none", count |-> 0, due10 |-> 0, due1 |-> 0, tries |-> <<>>,
     last |-> "none"]

Spawned(t) ==
    [pc |-> "tick10", count |-> 0, due10 |-> t, due1 |-> 0, tries |-> <<>>,
     last |-> "none"]

(* `let _ = sender.send(Ping)`: the send future is built and dropped       *)
(* without being polled, so nothing reaches the write half.                *)
SendPing(w) == w

----------------------------------------------------------------------------
(* enum Exchange (src/models.rs): the names of its members, in the order   *)
(* of declaration, each as the sequence of its characters.                 *)

ExchangeNames ==
    <<
       <<"B", "i", "t", "m", "e", "x">>,
       <<"D", "e", "r", "i", "b", "i", "t">>,
       <<"B", "i", "n", "a", "n", "c", "e", "F", "u", "t", "u", "r", "e", "s">>,
       <<"B", "i", "n", "a", "n", "c", "e", "D", "e", "l", "i", "v", "e", "r", "y">>,
       <<"B", "i", "n", "a", "n", "c", "e", "O", "p", "t", "i", "o", "n", "s">>,
       <<"B", "i", "n", "a", "n", "c", "e">>,
       <<"F", "t", "x">>,
       <<"O", "k", "e", "x", "F", "u", "t", "u", "r", "e", "s">>,
       <<"O", "k", "e", "x", "O", "p", "t", "i", "o", "n", "s">>,
       <<"O", "k", "e", "x", "S", "w", "a", "p">>,
       <<"O", "k", "e", "x">>,
       <<"H", "u", "o", "b", "i", "D", "m">>,
       <<"H", "u", "o", "b", "i", "D", "m", "S", "w", "a", "p">>,
       <<"H", "u", "o", "b", "i", "D", "m", "L", "i", "n", "e", "a", "r", "S", "w", "a", "p">>,
       <<"H", "u", "o", "b", "i">>,
       <<"B", "i", "t", "f", "i", "n", "e", "x", "D", "e", "r", "i", "v", "a", "t", "i", "v", "e", "s">>,
       <<"B", "i", "t", "f", "i", "n", "e", "x">>,
       <<"C", "o", "i", "n", "b", "a", "s", "e">>,
       <<"C", "r", "y", "p", "t", "o", "f", "a", "c", "i", "l", "i", "t", "i", "e", "s">>,
       <<"K", "r", "a", "k", "e", "n">>,
       <<"B", "i", "t", "s", "t", "a", "m", "p">>,
       <<"G", "e", "m", "i", "n", "i">>,
       <<"P", "o", "l", "o", "n", "i", "e", "x">>,
       <<"B", "y", "b", "i", "t">>,
       <<"B", "y", "b", "i", "t", "S", "p", "o", "t">>,
       <<"B", "y", "b", "i", "t", "O", "p", "t", "i", "o", "n", "s">>,
       <<"P", "h", "e", "m", "e", "x">>,
       <<"D", "e", "l", "t", "a">>,
       <<"F", "t", "x", "U", "s">>,
       <<"B", "i", "n", "a", "n", "c", "e", "U", "s">>,
       <<"G", "a", "t", "e", "I", "o", "F", "u", "t", "u", "r", "e", "s">>,
       <<"G", "a", "t", "e", "I", "o">>,
       <<"O", "k", "c", "o", "i", "n">>,
       <<"B", "i", "t", "f", "l", "y", "e", "r">>,
       <<"H", "i", "t", "b", "t", "c">>,
       <<"C", "o", "i", "n", "f", "l", "e", "x">>,
       <<"B", "i", "n", "a", "n", "c", "e", "J", "e", "r", "s", "e", "y">>,
       <<"B", "i", "n", "a", "n", "c", "e", "D", "e", "x">>,
       <<"U", "p", "b", "i", "t">>,
       <<"A", "s", "c", "e", "n", "d", "e", "x">>,
       <<"D", "y", "d", "x">>,
       <<"S", "e", "r", "u", "m">>,
       <<"M", "a", "n", "g", "o">>,
       <<"H", "u", "o", "b", "i", "D", "m", "P", "p", "t", "i", "o", "n", "s">>,
       <<"S", "t", "a", "r", "A", "t", "l", "a", "s">>,
       <<"C", "r", "y", "p", "t", "o", "C", "o", "m">>,
       <<"C", "r", "y", "p", "t", "o", "C", "o", "m", "D", "e", "r", "i", "v", "a", "t", "i", "v", "e", "s">>,
       <<"K", "u", "c", "o", "i", "n">>,
       <<"B", "i", "t", "n", "o", "m", "i", "a", "l">>,
       <<"W", "o", "o", "X">>,
       <<"B", "l", "o", "c", "k", "c", "h", "a", "i", "n", "C", "o", "m">>
    >>

Members == 1..Len(ExchangeNames)

Uppercase ==
    {"A", "B", "C", "D", "E", "F", "G", "H", "I", "J", "K", "L", "M",
     "N", "O", "P", "Q", "R", "S", "T", "U", "V", "W", "X", "Y", "Z"}

ToLowercase(c) ==
    CASE c = "A" -> "a"
      [] c = "B" -> "b"
      [] c = "C" -> "c"
      [] c = "D" -> "d"
      [] c = "E" -> "e"
      [] c = "F" -> "f"
      [] c = "G" -> "g"
      [] c = "H" -> "h"
      [] c = "I" -> "i"
      [] c = "J" -> "j"
      [] c = "K" -> "k"
      [] c = "L" -> "l"
      [] c = "M" -> "m"
      [] c = "N" -> "n"
      [] c = "O" -> "o"
      [] c = "P" -> "p"
      [] c = "Q" -> "q"
      [] c = "R" -> "r"
      [] c = "S" -> "s"
      [] c = "T" -> "t"
      [] c = "U" -> "u"
      [] c = "V" -> "v"
      [] c = "W" -> "w"
      [] c = "X" -> "x"
      [] c = "Y" -> "y"
      [] c = "Z" -> "z"
      [] OTHER -> c

(* #[serde(rename_all = "kebab-case")] on a variant name: every capital    *)
(* but the first is preceded by the separator, every capital is lowered.   *)
SnakeSeparator == "_"

RenameSeparator == "-"

RECURSIVE RenameFrom(_, _)
RenameFrom(name, i) ==
    IF i > Len(name) THEN <<>>
    ELSE (IF name[i] \in Uppercase /\ i > 1 THEN <<RenameSeparator>>
          ELSE <<>>)
         \o <<ToLowercase(name[i])>> \o RenameFrom(name, i + 1)

Rename(name) == RenameFrom(name, 1)

(* serde_json::to_value of a member: a unit variant becomes the JSON       *)
(* string of its renamed name.                                             *)
ToValue(m) == [kind |-> "String", str |-> Rename(ExchangeNames[m])]

Panicked == <<"panic">>

(* Exchange::to_string: to_value(self).unwrap().as_str().unwrap().         *)
ToStringOf(m) ==
    LET v == ToValue(m)
    IN  IF v.kind = "String" THEN v.str ELSE Panicked

(* Deserialize for Exchange: the first member whose renamed name is the    *)
(* string, -1 (an error) when there is none.                               *)
Matching(id) == {m \in Members : Rename(ExchangeNames[m]) = id}

FromStr(id) ==
    IF Matching(id) = {} THEN -1
    ELSE CHOOSE m \in Matching(id) : \A n \in Matching(id) : m <= n

----------------------------------------------------------------------------
Init ==
    /\ opens = 0
    /\ attempts = 0
    /\ nonEmpty = 0
    /\ lastOpen = [op |-> "none", opts |-> <<>>, target |-> <<>>,
                   conn |-> NoConn, err |-> NoError, sid |-> 0]
    /\ nsess = 0
    /\ gen = [s \in Sessions |-> "unused"]
    /\ pending = [s \in Sessions |-> FALSE]
    /\ recv = [s \in Sessions |-> <<>>]
    /\ items = [s \in Sessions |-> <<>>]
    /\ hb = [s \in Sessions |-> NoHeartbeat]
    /\ wire = [s \in Sessions |-> <<>>]
    /\ now = 0
    /\ exchange = 0
    /\ rendered = <<>>
    /\ parsed = 0

sessVars == <<gen, pending, recv, items, hb, wire>>

websocket_conn_retry(op, options, url, c) ==
    /\ attempts' = attempts + (IF c.ok THEN 1 ELSE 2)
    /\ IF ConnError(c) = NoError
       THEN /\ nsess < MaxSessions
            /\ nsess' = nsess + 1
            /\ gen' = [gen EXCEPT ![nsess + 1] = "created"]
            /\ lastOpen' = [op |-> op, opts |-> options, target |-> url,
                            conn |-> c, err |-> NoError, sid |-> nsess + 1]
       ELSE /\ lastOpen' = [op |-> op, opts |-> options, target |-> url,
                            conn |-> c, err |-> ConnError(c), sid |-> 0]
            /\ UNCHANGED <<nsess, gen>>
    /\ UNCHANGED <<exchVars, pending, recv, items, hb, wire, now>>

(* websocket_conn(url) up to its return: one connect_async call, then      *)
(* either an error or a new, not yet started, generator.                   *)
websocket_conn(op, options, url, c) ==
    /\ attempts' = attempts + 1
    /\ IF ConnError(c) = NoError
       THEN /\ nsess < MaxSessions
            /\ nsess' = nsess + 1
            /\ gen' = [gen EXCEPT ![nsess + 1] = "created"]
            /\ lastOpen' = [op |-> op, opts |-> options, target |-> url,
                            conn |-> c, err |-> NoError, sid |-> nsess + 1]
       ELSE /\ lastOpen' = [op |-> op, opts |-> options, target |-> url,
                            conn |-> c, err |-> ConnError(c), sid |-> 0]
            /\ UNCHANGED <<nsess, gen>>
    /\ UNCHANGED <<exchVars, pending, recv, items, hb, wire, now>>

replay_connects_first(options, c) ==
    /\ opens < MaxOpens
    /\ opens' = opens + 1
    /\ nonEmpty' = nonEmpty + (IF Len(options) = 0 THEN 0 ELSE 1)
    /\ websocket_conn("replay", options, ReplayUrl(options), c)

replay_normalized(options, c) ==
    /\ opens < MaxOpens
    /\ opens' = opens + 1
    /\ IF Len(options) = 0
       THEN /\ lastOpen' = [op |-> "replay", opts |-> options,
                            target |-> <<>>, conn |-> NoConn,
                            err |-> EmptyOptions, sid |-> 0]
            /\ UNCHANGED <<exchVars, attempts, nonEmpty, nsess, sessVars,
                         now>>
       ELSE /\ nonEmpty' = nonEmpty + 1
            /\ websocket_conn("replay", options, ReplayUrl(options), c)

stream_normalized(options, c) ==
    /\ opens < MaxOpens
    /\ opens' = opens + 1
    /\ IF Len(options) = 0
       THEN /\ lastOpen' = [op |-> "stream", opts |-> options,
                            target |-> <<>>, conn |-> NoConn,
                            err |-> EmptyOptions, sid |-> 0]
            /\ UNCHANGED <<exchVars, attempts, nonEmpty, nsess, sessVars,
                         now>>
       ELSE /\ nonEmpty' = nonEmpty + 1
            /\ websocket_conn("stream", options, StreamUrl(options), c)

openVars == <<opens, attempts, nonEmpty, lastOpen, nsess>>

Live(s) == s <= nsess /\ gen[s] \notin {"unused", "dropped"}

RECURSIVE SumLen(_, _)
SumLen(f, n) == IF n = 0 THEN 0 ELSE Len(f[n]) + SumLen(f, n - 1)

FramesRead == SumLen(recv, MaxSessions)

PollRestarts(s) ==
    /\ Live(s)
    /\ ~pending[s]
    /\ CASE gen[s] = "created" ->
              /\ gen' = [gen EXCEPT ![s] = "next"]
              /\ hb' = [hb EXCEPT ![s] = Spawned(now)]
              /\ pending' = [pending EXCEPT ![s] = TRUE]
         [] gen[s] = "next" ->
              /\ pending' = [pending EXCEPT ![s] = TRUE]
              /\ UNCHANGED <<gen, hb>>
         [] gen[s] \in {"y170", "y184", "yTry"} ->
              /\ gen' = [gen EXCEPT ![s] = "done"]
              /\ UNCHANGED <<pending, hb>>
         [] gen[s] = "done" ->
              /\ gen' = [gen EXCEPT ![s] = "next"]
              /\ pending' = [pending EXCEPT ![s] = TRUE]
              /\ UNCHANGED hb
    /\ UNCHANGED <<exchVars, openVars, recv, items, wire, now>>

(* The consumer calls next() on the sequence of session s.  The first call *)
(* starts the generator: split, spawn the heartbeat, await the reader.     *)
(* A generator suspended after yielding an error runs to its break or      *)
(* return and the call reports the end; a finished one (gen[s] = "done")   *)
(* reports the end again and nothing changes.                              *)
Poll(s) ==
    /\ Live(s)
    /\ ~pending[s]
    /\ CASE gen[s] = "created" ->
              /\ gen' = [gen EXCEPT ![s] = "next"]
              /\ hb' = [hb EXCEPT ![s] = Spawned(now)]
              /\ pending' = [pending EXCEPT ![s] = TRUE]
         [] gen[s] = "next" ->
              /\ pending' = [pending EXCEPT ![s] = TRUE]
              /\ UNCHANGED <<gen, hb>>
         [] gen[s] \in {"y170", "y184", "yTry"} ->
              /\ gen' = [gen EXCEPT ![s] = "done"]
              /\ UNCHANGED <<pending, hb>>
         [] gen[s] = "done" ->
              UNCHANGED <<gen, pending, hb>>
    /\ UNCHANGED <<exchVars, openVars, recv, items, wire, now>>

DeliverNeedsWriter(s, r) ==
    /\ Live(s)
    /\ pending[s]
    /\ gen[s] = "next"
    /\ hb[s].last # "stalled"
    /\ FramesRead < MaxFrames
    /\ recv' = [recv EXCEPT ![s] = Append(@, r)]
    /\ LET t == ReadLoop(r)
       IN  IF t.some
           THEN /\ items' = [items EXCEPT ![s] = Append(@, t.item)]
                /\ gen' = [gen EXCEPT ![s] = t.pc]
                /\ pending' = [pending EXCEPT ![s] = FALSE]
           ELSE IF t.pc = "done"
           THEN /\ gen' = [gen EXCEPT ![s] = "done"]
                /\ pending' = [pending EXCEPT ![s] = FALSE]
                /\ UNCHANGED items
           ELSE UNCHANGED <<items, gen, pending>>
    /\ UNCHANGED <<exchVars, openVars, hb, wire, now>>

DeliverPong(s, r) ==
    /\ Live(s)
    /\ pending[s]
    /\ gen[s] = "next"
    /\ FramesRead < MaxFrames
    /\ recv' = [recv EXCEPT ![s] = Append(@, r)]
    /\ wire' = [wire EXCEPT ![s] =
                  IF r.kind = "Ping" THEN Append(@, "Pong") ELSE @]
    /\ LET t == ReadLoop(r)
       IN  IF t.some
           THEN /\ items' = [items EXCEPT ![s] = Append(@, t.item)]
                /\ gen' = [gen EXCEPT ![s] = t.pc]
                /\ pending' = [pending EXCEPT ![s] = FALSE]
           ELSE IF t.pc = "done"
           THEN /\ gen' = [gen EXCEPT ![s] = "done"]
                /\ pending' = [pending EXCEPT ![s] = FALSE]
                /\ UNCHANGED items
           ELSE UNCHANGED <<items, gen, pending>>
    /\ UNCHANGED <<exchVars, openVars, hb, now>>

DeliverEager(s, r) ==
    /\ Live(s)
    /\ gen[s] = "next"
    /\ FramesRead < MaxFrames
    /\ recv' = [recv EXCEPT ![s] = Append(@, r)]
    /\ LET t == ReadLoop(r)
       IN  IF t.some
           THEN /\ items' = [items EXCEPT ![s] = Append(@, t.item)]
                /\ gen' = [gen EXCEPT ![s] = t.pc]
                /\ pending' = [pending EXCEPT ![s] = FALSE]
           ELSE IF t.pc = "done"
           THEN /\ gen' = [gen EXCEPT ![s] = "done"]
                /\ pending' = [pending EXCEPT ![s] = FALSE]
                /\ UNCHANGED items
           ELSE UNCHANGED <<items, gen, pending>>
    /\ UNCHANGED <<exchVars, openVars, hb, wire, now>>

(* reader.next() of session s resolves to r while a next() is outstanding. *)
Deliver(s, r) ==
    /\ Live(s)
    /\ pending[s]
    /\ gen[s] = "next"
    /\ FramesRead < MaxFrames
    /\ recv' = [recv EXCEPT ![s] = Append(@, r)]
    /\ LET t == ReadLoop(r)
       IN  IF t.some
           THEN /\ items' = [items EXCEPT ![s] = Append(@, t.item)]
                /\ gen' = [gen EXCEPT ![s] = t.pc]
                /\ pending' = [pending EXCEPT ![s] = FALSE]
           ELSE IF t.pc = "done"
           THEN /\ gen' = [gen EXCEPT ![s] = "done"]
                /\ pending' = [pending EXCEPT ![s] = FALSE]
                /\ UNCHANGED items
           ELSE UNCHANGED <<items, gen, pending>>
    /\ UNCHANGED <<exchVars, openVars, hb, wire, now>>

(* The consumer drops the sequence: the generator and the read half go.    *)
(* The heartbeat was spawned detached and is not told.                     *)
Drop(s) ==
    /\ Live(s)
    /\ gen' = [gen EXCEPT ![s] = "dropped"]
    /\ pending' = [pending EXCEPT ![s] = FALSE]
    /\ UNCHANGED <<exchVars, openVars, recv, items, hb, wire, now>>

(* interval.tick() of the 10 s interval completes: a burst starts.         *)
HbPeriod(s) ==
    /\ hb[s].pc = "tick10"
    /\ now >= hb[s].due10
    /\ hb' = [hb EXCEPT ![s] = [@ EXCEPT !.pc = "tick1", !.count = Retries,
                                         !.due10 = @ + Period, !.due1 = now]]
    /\ UNCHANGED <<exchVars, openVars, gen, pending, recv, items, wire, now>>

(* What polling the send future would produce on the write half.           *)
SendOutcomes == {"sent", "failed", "stalled"}

HbAttemptOffByOne(s, o) ==
    /\ hb[s].pc = "tick1"
    /\ hb[s].count >= 0
    /\ now >= hb[s].due1
    /\ wire' = [wire EXCEPT ![s] = SendPing(@)]
    /\ hb' = [hb EXCEPT ![s] =
                [@ EXCEPT !.count = @ - 1, !.due1 = @ + Pace,
                          !.tries = Append(@, now),
                          !.last = o,
                          !.pc = IF hb[s].count - 1 >= 0 THEN "tick1"
                                 ELSE "tick10"]]
    /\ UNCHANGED <<exchVars, openVars, gen, pending, recv, items, now>>

HbAttemptSurfaces(s, o) ==
    /\ hb[s].pc = "tick1"
    /\ hb[s].count > 0
    /\ now >= hb[s].due1
    /\ wire' = [wire EXCEPT ![s] = SendPing(@)]
    /\ hb' = [hb EXCEPT ![s] =
                [@ EXCEPT !.count = @ - 1, !.due1 = @ + Pace,
                          !.tries = Append(@, now),
                          !.last = o,
                          !.pc = IF hb[s].count - 1 > 0 THEN "tick1"
                                 ELSE "tick10"]]
    /\ IF o = "failed" /\ gen[s] = "next"
       THEN /\ items' = [items EXCEPT ![s] = Append(@, Err(ConnectFailed))]
            /\ gen' = [gen EXCEPT ![s] = "done"]
            /\ pending' = [pending EXCEPT ![s] = FALSE]
       ELSE UNCHANGED <<items, gen, pending>>
    /\ UNCHANGED <<exchVars, openVars, recv, now>>

(* interval.tick() of the 1 s interval completes: one send attempt.  o is  *)
(* the state of the write path, kept in `last`; the send future is dropped *)
(* unpolled and its result discarded, so o is never consulted.             *)
HbAttempt(s, o) ==
    /\ hb[s].pc = "tick1"
    /\ hb[s].count > 0
    /\ now >= hb[s].due1
    /\ wire' = [wire EXCEPT ![s] = SendPing(@)]
    /\ hb' = [hb EXCEPT ![s] =
                [@ EXCEPT !.count = @ - 1, !.due1 = @ + Pace,
                          !.tries = Append(@, now),
                          !.last = o,
                          !.pc = IF hb[s].count - 1 > 0 THEN "tick1"
                                 ELSE "tick10"]]
    /\ UNCHANGED <<exchVars, openVars, gen, pending, recv, items, now>>

TimerDue(s) ==
    \/ hb[s].pc = "tick10" /\ now >= hb[s].due10
    \/ hb[s].pc = "tick1" /\ now >= hb[s].due1

(* A second passes; a timer that is due fires first.                       *)
Tick ==
    /\ now < MaxTime
    /\ \A s \in Sessions : ~TimerDue(s)
    /\ now' = now + 1
    /\ UNCHANGED <<exchVars, openVars, sessVars>>

----------------------------------------------------------------------------
(* Spec: one session read to its end, over every kind of read result.      *)

SessionOutcomes ==
    { c \in ConnectOutcomes : c.status \in {0, SWITCHING_PROTOCOLS} }

Next ==
    \/ \E c \in SessionOutcomes :
          nsess = 0 /\ stream_normalized(<<"o1">>, c)
    \/ \E s \in Sessions : Poll(s)
    \/ \E s \in Sessions, r \in ReadResults : Deliver(s, r)
    \/ \E s \in Sessions : Drop(s)

Spec == Init /\ [][Next]_vars

(* SpecOpen: every open call, with any options and any connect outcome;    *)
(* the sessions it opens read text frames and the end of the stream.       *)

OpenReads ==
    { Text(p) : p \in {Payload(TRUE, "trade", TRUE, 1)} }
    \cup {Plain("Eof"), Close("Normal", <<>>)}

NextOpen ==
    \/ \E o \in OptionLists, c \in ConnectOutcomes : replay_normalized(o, c)
    \/ \E o \in OptionLists, c \in ConnectOutcomes : stream_normalized(o, c)
    \/ \E s \in Sessions : Poll(s)
    \/ \E s \in Sessions, r \in OpenReads : Deliver(s, r)
    \/ \E s \in Sessions : Drop(s)

SpecOpen == Init /\ [][NextOpen]_vars

(* SpecHb: one session, its heartbeat task and the clock.  Timers fire as   *)
(* soon as they are due (Tick); SpecHbFair adds that the runtime keeps     *)
(* scheduling the heartbeat and that time keeps passing.                   *)

HbReads ==
    OpenReads \cup {Plain("Ping"), Close("Away", <<"maintenance">>)}

NextHb ==
    \/ \E c \in SessionOutcomes :
          nsess = 0 /\ stream_normalized(<<"o1">>, c)
    \/ \E s \in Sessions : Poll(s)
    \/ \E s \in Sessions, r \in HbReads : Deliver(s, r)
    \/ \E s \in Sessions : Drop(s)
    \/ \E s \in Sessions : HbPeriod(s)
    \/ \E s \in Sessions, o \in SendOutcomes : HbAttempt(s, o)
    \/ Tick

SpecHb == Init /\ [][NextHb]_vars

SpecHbFair ==
    /\ SpecHb
    /\ WF_vars(Tick)
    /\ \A s \in Sessions : WF_vars(HbPeriod(s))
    /\ \A s \in Sessions : WF_vars(\E o \in SendOutcomes : HbAttempt(s, o))

(* SpecDecode: one session reading text frames of every tag, known and    *)
(* unknown, each a well-formed JSON object.                                *)

DecodeTags ==
    KnownTags \cup {"quote", "Trade", "tradeBar", ""}

DecodePayloads ==
    { Payload(TRUE, t, TRUE, i) : t \in DecodeTags, i \in {1, 2} }

DecodeReads ==
    { Text(p) : p \in DecodePayloads } \cup {Close("Normal", <<>>)}

NextDecode ==
    \/ \E c \in SessionOutcomes :
          nsess = 0 /\ replay_normalized(<<"o1">>, c)
    \/ \E s \in Sessions : Poll(s)
    \/ \E s \in Sessions, r \in DecodeReads : Deliver(s, r)
    \/ \E s \in Sessions : Drop(s)

SpecDecode == Init /\ [][NextDecode]_vars

(* SpecUrl: open calls with lists of up to MaxUrlOpts options, and the     *)
(* start and the drop of the sequences they return.                        *)

UrlLists == SeqsUpTo(Options, MaxUrlOpts)

NextUrl ==
    \/ \E o \in UrlLists, c \in ConnectOutcomes : replay_normalized(o, c)
    \/ \E o \in UrlLists, c \in ConnectOutcomes : stream_normalized(o, c)
    \/ \E s \in Sessions : Poll(s)
    \/ \E s \in Sessions : Drop(s)

SpecUrl == Init /\ [][NextUrl]_vars

(* SpecRetry: the caller of examples/stream_normalized.rs.  It opens one   *)
(* sequence, asks it for items in a loop, and on an Err item or on the end *)
(* of the sequence opens again with the same options.  `stream = ...`      *)
(* stores the new sequence and drops the old one; unwrap() of a failed     *)
(* open panics, which ends main and drops the sequence it holds.           *)

MainOptions == <<"o1">>

MainExited == opens > 0 /\ lastOpen.err # NoError

Ended(s) == gen[s] \in {"y170", "y184", "yTry", "done"} /\ ~pending[s]

(* let mut stream = Box::pin(client.stream_normalized(..).await.unwrap())  *)
MainStart(c) ==
    /\ opens = 0
    /\ stream_normalized(MainOptions, c)

(* stream.next().await on the sequence main holds.                         *)
MainNext ==
    /\ nsess > 0
    /\ ~MainExited
    /\ gen[nsess] \in {"created", "next"}
    /\ Poll(nsess)

MainRead(r) ==
    /\ nsess > 0
    /\ ~MainExited
    /\ Deliver(nsess, r)

MainReopenKeepsOld(c) ==
    /\ nsess > 0
    /\ ~MainExited
    /\ Ended(nsess)
    /\ stream_normalized(MainOptions, c)

(* The Some(Err(e)) and None arms: open again, replace the sequence held.  *)
MainReopen(c) ==
    /\ nsess > 0
    /\ ~MainExited
    /\ Ended(nsess)
    /\ opens < MaxOpens
    /\ opens' = opens + 1
    /\ nonEmpty' = nonEmpty + 1
    /\ attempts' = attempts + 1
    /\ IF ConnError(c) = NoError
       THEN /\ nsess < MaxSessions
            /\ nsess' = nsess + 1
            /\ gen' = [gen EXCEPT ![nsess] = "dropped",
                                  ![nsess + 1] = "created"]
            /\ lastOpen' = [op |-> "stream", opts |-> MainOptions,
                            target |-> StreamUrl(MainOptions), conn |-> c,
                            err |-> NoError, sid |-> nsess + 1]
       ELSE /\ gen' = [gen EXCEPT ![nsess] = "dropped"]
            /\ lastOpen' = [op |-> "stream", opts |-> MainOptions,
                            target |-> StreamUrl(MainOptions), conn |-> c,
                            err |-> ConnError(c), sid |-> 0]
            /\ UNCHANGED nsess
    /\ UNCHANGED <<exchVars, pending, recv, items, hb, wire, now>>

RetryReads ==
    { Text(p) : p \in {Payload(TRUE, "trade", TRUE, 1),
                       Payload(FALSE, "", FALSE, 3)} }
    \cup {Plain("Eof"), Plain("ReadErr"), Close("Normal", <<>>),
          Close("Away", <<"maintenance">>)}

NextRetry ==
    \/ \E c \in SessionOutcomes : MainStart(c)
    \/ MainNext
    \/ \E r \in RetryReads : MainRead(r)
    \/ \E c \in SessionOutcomes : MainReopen(c)

SpecRetry == Init /\ [][NextRetry]_vars

(* SpecLive: one session, its heartbeat and the clock, with a socket that  *)
(* has a completing frame (text, close, read error or end) left whenever   *)
(* a request is made: ignorable frames never use up the last frame.        *)
(* SpecLiveFair adds that the runtime keeps scheduling the tasks, that     *)
(* time passes, and that the socket does deliver such a frame.             *)

IgnorableReads == {Plain("Ping"), Plain("Pong")}

CompletingReads ==
    { Text(p) : p \in {Payload(TRUE, "trade", TRUE, 1)} }
    \cup {Plain("Eof"), ReadErr(<<"reset">>), Close("Normal", <<>>)}

LivePoll(s) ==
    /\ gen[s] \in {"created", "next"} => FramesRead < MaxFrames
    /\ Poll(s)

LiveTick == now < MaxLiveTime /\ Tick

NextLive ==
    \/ \E c \in SessionOutcomes :
          nsess = 0 /\ stream_normalized(<<"o1">>, c)
    \/ \E s \in Sessions : LivePoll(s)
    \/ \E s \in Sessions, r \in IgnorableReads :
          FramesRead + 1 < MaxFrames /\ Deliver(s, r)
    \/ \E s \in Sessions, r \in CompletingReads : Deliver(s, r)
    \/ \E s \in Sessions : Drop(s)
    \/ \E s \in Sessions : HbPeriod(s)
    \/ \E s \in Sessions, o \in SendOutcomes : HbAttempt(s, o)
    \/ LiveTick

SpecLive == Init /\ [][NextLive]_vars

SpecLiveFair ==
    /\ SpecLive
    /\ WF_vars(LiveTick)
    /\ \A s \in Sessions : WF_vars(HbPeriod(s))
    /\ \A s \in Sessions : WF_vars(\E o \in SendOutcomes : HbAttempt(s, o))
    /\ \A s \in Sessions : WF_vars(\E r \in CompletingReads : Deliver(s, r))

(* SpecExchange: a member of Exchange is chosen, turned into its string,   *)
(* and the string is deserialized.                                         *)

choose(m) ==
    /\ exchange = 0
    /\ exchange' = m
    /\ UNCHANGED <<openVars, sessVars, now, rendered, parsed>>

to_string ==
    /\ exchange # 0
    /\ rendered = <<>>
    /\ rendered' = ToStringOf(exchange)
    /\ UNCHANGED <<openVars, sessVars, now, exchange, parsed>>

deserialize ==
    /\ rendered # <<>>
    /\ rendered # Panicked
    /\ parsed = 0
    /\ parsed' = FromStr(rendered)
    /\ UNCHANGED <<openVars, sessVars, now, exchange, rendered>>

NextExchange ==
    \/ \E m \in Members : choose(m)
    \/ to_string
    \/ deserialize

SpecExchange == Init /\ [][NextExchange]_vars

(* SpecShare: two sessions side by side, each with its read loop and its   *)
(* heartbeat task, at one instant of the clock.                            *)

ShareReads ==
    { Text(p) : p \in {Payload(TRUE, "trade", TRUE, 1)} }
    \cup {Plain("Ping"), Plain("Eof")}

NextShare ==
    \/ \E c \in SessionOutcomes : stream_normalized(<<"o1">>, c)
    \/ \E s \in Sessions : Poll(s)
    \/ \E s \in Sessions, r \in ShareReads : Deliver(s, r)
    \/ \E s \in Sessions : Drop(s)
    \/ \E s \in Sessions : HbPeriod(s)
    \/ \E s \in Sessions, o \in SendOutcomes : HbAttempt(s, o)

SpecShare == Init /\ [][NextShare]_vars

----------------------------------------------------------------------------
(* Properties.                                                             *)

Last(q) == q[Len(q)]

ErrCount(q) == Cardinality({i \in 1..Len(q) : ~q[i].ok})

AllOk(q) == \A i \in 1..Len(q) : q[i].ok

(* The messages of the text frames of q that decode, in the order of q.    *)
RECURSIVE Decodings(_)
Decodings(q) ==
    IF q = <<>> THEN <<>>
    ELSE LET r == Head(q)
         IN  IF r.kind = "Text" /\ Decode(r.text).ok
             THEN <<Decode(r.text).msg>> \o Decodings(Tail(q))
             ELSE Decodings(Tail(q))

RECURSIVE OkMessages(_)
OkMessages(q) ==
    IF q = <<>> THEN <<>>
    ELSE IF Head(q).ok THEN <<Head(q).msg>> \o OkMessages(Tail(q))
         ELSE OkMessages(Tail(q))

ValidText(r) == r.kind = "Text" /\ Decode(r.text).ok

Malformed(r) ==
    r.kind = "Text" /\ (~r.text.json \/ r.text.type \notin KnownTags)

AbnormalClose(r) == r.kind = "Close" /\ r.hasClose /\ r.code # "Normal"

CleanClose(r) == r.kind = "Close" /\ (~r.hasClose \/ r.code = "Normal")

OpenStep == opens' = opens + 1

(* C1: an open call (replay_normalized or stream_normalized) whose options *)
(* list is empty returns EmptyOptions, makes no connection attempt and     *)
(* returns no sequence.                                                    *)
C1_EmptyOptionsBeforeConnect ==
    [][(OpenStep /\ Len(lastOpen'.opts) = 0) =>
          /\ lastOpen'.err = EmptyOptions
          /\ lastOpen'.conn = NoConn
          /\ attempts' = attempts
          /\ nsess' = nsess]_vars

C1_Witness ==
    /\ lastOpen.op = "stream"
    /\ lastOpen.opts = <<>>
    /\ lastOpen.err = EmptyOptions
    /\ opens = 2
    /\ attempts = 1

(* C2: the Ok items of a session are the decodings of the text frames it   *)
(* read, in arrival order; valid text frames followed by a Normal close    *)
(* give one Ok item each, no error item, and the end of the sequence.      *)
C2_OkItemsAreTextFramesInOrder ==
    \A s \in Sessions :
        /\ OkMessages(items[s]) = Decodings(recv[s])
        /\ ( /\ recv[s] # <<>>
             /\ Last(recv[s]).kind = "Close"
             /\ Last(recv[s]).code = "Normal"
             /\ \A i \in 1..(Len(recv[s]) - 1) : ValidText(recv[s][i]) )
           => /\ Len(items[s]) = Len(recv[s]) - 1
              /\ AllOk(items[s])
              /\ gen[s] \in {"done", "dropped"}

C2_Witness ==
    \E s \in Sessions :
        /\ Len(recv[s]) = 3
        /\ recv[s][1] = Text(Payload(TRUE, "book_change", TRUE, 2))
        /\ recv[s][2] = Text(Payload(TRUE, "trade", TRUE, 1))
        /\ Last(recv[s]) = Close("Normal", <<>>)
        /\ items[s] = << Ok([variant |-> "BookChange", id |-> 2]),
                         Ok([variant |-> "Trade", id |-> 1]) >>
        /\ gen[s] = "done"

(* C3: a close frame whose code is not Normal is the last thing read; the  *)
(* sequence carries exactly one error, ConnectionClosed with the frame's   *)
(* reason, as its last item, and the generator can only end.               *)
C3_AbnormalCloseYieldsReason ==
    \A s \in Sessions : \A i \in 1..Len(recv[s]) :
        AbnormalClose(recv[s][i]) =>
            /\ i = Len(recv[s])
            /\ items[s] # <<>>
            /\ Last(items[s]) = Err(ConnectionClosed(recv[s][i].reason))
            /\ ErrCount(items[s]) = 1
            /\ gen[s] \in {"y170", "done", "dropped"}
            /\ ~pending[s]

C3_Witness ==
    \E s \in Sessions :
        /\ Len(recv[s]) = 2
        /\ Last(recv[s]) = Close("Away", <<"maintenance">>)
        /\ Len(items[s]) = 2
        /\ Last(items[s]) = Err(ConnectionClosed(<<"maintenance">>))
        /\ gen[s] = "done"

(* C4: a close frame with code Normal, or with no payload, is the last     *)
(* thing read; the sequence has ended and carries no error item.           *)
C4_CleanCloseEndsWithoutError ==
    \A s \in Sessions : \A i \in 1..Len(recv[s]) :
        CleanClose(recv[s][i]) =>
            /\ i = Len(recv[s])
            /\ AllOk(items[s])
            /\ gen[s] \in {"done", "dropped"}
            /\ ~pending[s]

C4_Witness ==
    \E s \in Sessions :
        /\ Len(recv[s]) = 2
        /\ Last(recv[s]) = CloseNone
        /\ Len(items[s]) = 1
        /\ gen[s] = "done"

(* C5: a text frame that is not JSON, or has no recognised "type", is the  *)
(* last thing read; the sequence carries exactly one error,                *)
(* Deserialization, as its last item, and the generator can only end.      *)
C5_MalformedTextYieldsDeserialization ==
    \A s \in Sessions : \A i \in 1..Len(recv[s]) :
        Malformed(recv[s][i]) =>
            /\ i = Len(recv[s])
            /\ items[s] # <<>>
            /\ Last(items[s]) = Err(Deserialization)
            /\ ErrCount(items[s]) = 1
            /\ gen[s] \in {"yTry", "done", "dropped"}
            /\ ~pending[s]

C5_Witness ==
    \E s \in Sessions :
        /\ Len(recv[s]) = 2
        /\ Last(recv[s]) = Text(Payload(TRUE, "quote", TRUE, 5))
        /\ Len(items[s]) = 2
        /\ Last(items[s]) = Err(Deserialization)
        /\ gen[s] = "done"

(* C6: the end of the stream is the last thing read; the sequence carries  *)
(* exactly one error, ConnectionClosed{"Unknown reason"}, as its last      *)
(* item; one valid text frame and then the end give exactly two items.     *)
C6_EofYieldsUnknownReason ==
    \A s \in Sessions : \A i \in 1..Len(recv[s]) :
        recv[s][i].kind = "Eof" =>
            /\ i = Len(recv[s])
            /\ items[s] # <<>>
            /\ Last(items[s]) = Err(ConnectionClosed(UnknownReason))
            /\ ErrCount(items[s]) = 1
            /\ gen[s] \in {"y184", "done", "dropped"}
            /\ ~pending[s]
            /\ (i = 2 /\ ValidText(recv[s][1])) =>
                  /\ Len(items[s]) = 2
                  /\ items[s][1] = Decode(recv[s][1].text)

C6_Witness ==
    \E s \in Sessions :
        /\ recv[s] = <<Text(Payload(TRUE, "trade", TRUE, 1)), Plain("Eof")>>
        /\ items[s] = << Ok([variant |-> "Trade", id |-> 1]),
                         Err(ConnectionClosed(UnknownReason)) >>
        /\ gen[s] = "done"

(* C7: reading a raw, binary, pong or ping frame yields no item and does   *)
(* not end the sequence: the generator awaits the next frame and the       *)
(* consumer's request stays outstanding.                                   *)
C7_IgnoredFramesYieldNothing ==
    [][\A s \in Sessions :
          ( /\ Len(recv'[s]) = Len(recv[s]) + 1
            /\ Last(recv'[s]).kind \in Ignorable )
          => /\ items'[s] = items[s]
             /\ gen'[s] = "next"
             /\ pending'[s]]_vars

C7_Witness ==
    \E s \in Sessions :
        /\ Len(recv[s]) = 3
        /\ recv[s][1].kind = "Ping"
        /\ recv[s][2].kind = "Binary"
        /\ ValidText(recv[s][3])
        /\ items[s] = <<Decode(recv[s][3].text)>>

(* C8: a sequence carries at most one error item and nothing follows it.   *)
C8_ErrorIsLastItem ==
    \A s \in Sessions : \A i \in 1..Len(items[s]) :
        ~items[s][i].ok => i = Len(items[s])

C8_Witness ==
    \E s \in Sessions :
        /\ Len(items[s]) = 3
        /\ ~Last(items[s]).ok
        /\ gen[s] = "done"

(* C9: an upgrade response whose status is not 101 makes the open call     *)
(* fail with ConnectRejected carrying that status and the body text, or    *)
(* "Unknown reason" without a body; no sequence is returned, no heartbeat  *)
(* is spawned and no item is produced.                                     *)
C9_RejectedUpgrade ==
    [][(OpenStep /\ lastOpen'.conn.ok
          /\ lastOpen'.conn.status # SWITCHING_PROTOCOLS) =>
          /\ lastOpen'.err =
                ConnectRejected(lastOpen'.conn.status,
                    IF lastOpen'.conn.body.some
                    THEN FromUtf8Lossy(lastOpen'.conn.body.bytes)
                    ELSE UnknownReason)
          /\ lastOpen'.sid = 0
          /\ nsess' = nsess
          /\ gen' = gen
          /\ hb' = hb
          /\ items' = items]_vars

C9_Witness ==
    /\ lastOpen.conn.ok
    /\ lastOpen.conn.status = 403
    /\ lastOpen.conn.body.some
    /\ lastOpen.err = ConnectRejected(403, <<"n", "o">>)
    /\ nsess = 0
    /\ \A s \in Sessions : hb[s] = NoHeartbeat

(* C10: the only errors a sequence carries as items are ConnectionClosed   *)
(* and Deserialization.                                                    *)
C10_OnlyClosedOrDeserializationItems ==
    \A s \in Sessions : \A i \in 1..Len(items[s]) :
        ~items[s][i].ok =>
            items[s][i].err.tag \in {"ConnectionClosed", "Deserialization"}

(* C11: within the first three periods of a live session the heartbeat has *)
(* put at least three ping frames on the write half: once it has made      *)
(* three send attempts, three pings are on the wire.                       *)
C11_PingsReachTheWire ==
    \A s \in Sessions :
        (gen[s] = "next" /\ Len(hb[s].tries) >= Retries)
            => Len(wire[s]) >= Retries

(* The heartbeat task of session s exists and has not returned.  The task  *)
(* is an endless loop, so once spawned it stays in one of its two waits.   *)
HeartbeatRunning(s) == hb[s].pc \in {"tick10", "tick1"}

WriteHalfHeld(s) == HeartbeatRunning(s)

TimersHeld(s) == HeartbeatRunning(s)

(* C13: once the consumer has dropped the sequence of a session, its       *)
(* heartbeat is stopped and neither the write half of the socket nor a     *)
(* heartbeat timer is still held.                                          *)
C13_DropReleasesSession ==
    \A s \in Sessions :
        gen[s] = "dropped" =>
            /\ ~HeartbeatRunning(s)
            /\ ~WriteHalfHeld(s)
            /\ ~TimersHeld(s)

(* C14: an open call with a non-empty options list makes exactly one       *)
(* connection attempt, and no other step (reading, ending, dropping a      *)
(* sequence) makes any.                                                    *)
C14_OneAttemptPerOpen ==
    [][ /\ (OpenStep /\ Len(lastOpen'.opts) > 0) => attempts' = attempts + 1
        /\ ~OpenStep => attempts' = attempts ]_vars

C14_Witness ==
    \E s \in Sessions :
        /\ gen[s] = "done"
        /\ items[s] # <<>>
        /\ ~Last(items[s]).ok
        /\ opens = 1
        /\ attempts = 1

(* C15: the sequence is pull-driven.  A frame is read only while a request *)
(* of the consumer for the next item is outstanding; before the first      *)
(* request nothing has been read; an item is yielded only to an            *)
(* outstanding request, one item at most, and it completes the request.    *)
C15_PullDriven ==
    [][\A s \in Sessions :
          /\ gen[s] = "created" => recv[s] = <<>> /\ items[s] = <<>>
          /\ recv'[s] # recv[s] => pending[s]
          /\ items'[s] # items[s] =>
                /\ pending[s]
                /\ ~pending'[s]
                /\ Len(items'[s]) = Len(items[s]) + 1
                /\ Len(recv'[s]) = Len(recv[s]) + 1]_vars

C15_Witness ==
    \E s \in Sessions :
        /\ gen[s] = "next"
        /\ ~pending[s]
        /\ Len(recv[s]) = 2
        /\ recv[s][1].kind \in Ignorable
        /\ recv[s][2].kind = "Text"
        /\ Len(items[s]) = 1

(* Everything one session owns: its generator with the read half, and its  *)
(* heartbeat task with the write half.                                     *)
SessionState(s) == <<gen[s], pending[s], recv[s], items[s], hb[s], wire[s]>>

(* C16: per session one writer and one reader.  A frame is written on a    *)
(* session's write half only by a step of its heartbeat task; a step that  *)
(* reads a frame is a step of the read loop and writes nothing (no pong    *)
(* answers a ping); no step touches the state of two sessions.             *)
C16_OneWriterOneReader ==
    [][/\ \A s \in Sessions :
             wire'[s] # wire[s] => (hb'[s] # hb[s] /\ recv' = recv)
       /\ \A s \in Sessions :
             recv'[s] # recv[s] => (wire' = wire /\ hb' = hb)
       /\ \A s, t \in Sessions :
             (s # t /\ SessionState(s)' # SessionState(s))
                => SessionState(t)' = SessionState(t)]_vars

C16_Witness ==
    /\ nsess = 2
    /\ \E i \in 1..Len(recv[1]) : recv[1][i].kind = "Ping"
    /\ Len(hb[1].tries) > 0
    /\ wire[1] = <<>>
    /\ Len(recv[2]) > 0
    /\ Len(hb[2].tries) > 0

(* The items the read loop yields for the received frames q.               *)
RECURSIVE ItemsOf(_)
ItemsOf(q) ==
    IF q = <<>> THEN <<>>
    ELSE LET t == ReadLoop(Head(q))
         IN  (IF t.some THEN <<t.item>> ELSE <<>>)
             \o (IF t.pc = "next" THEN ItemsOf(Tail(q)) ELSE <<>>)

(* C17: the heartbeat never affects what the consumer sees.  Whatever the  *)
(* heartbeat has done and however its sends went, the items of a session   *)
(* are those the read loop yields for the frames received; a send attempt, *)
(* be it sent, failed or stalled, changes neither the items nor the        *)
(* position of the generator nor the outstanding request.                  *)
C17_HeartbeatInvisible ==
    [][\A s \in Sessions :
          /\ items[s] = ItemsOf(recv[s])
          /\ Len(hb'[s].tries) > Len(hb[s].tries) =>
                /\ gen' = gen
                /\ items' = items
                /\ pending' = pending
                /\ recv' = recv]_vars

C17_Witness ==
    \E s \in Sessions :
        /\ hb[s].last = "failed"
        /\ Len(hb[s].tries) >= Retries
        /\ gen[s] = "next"
        /\ pending[s]
        /\ Len(items[s]) >= 2
        /\ AllOk(items[s])

(* The tag of each variant, as the claim lists them.                       *)
TagTable ==
    { <<"trade", "Trade">>, <<"book_change", "BookChange">>,
      <<"derivative_ticker", "DerivativeTicker">>,
      <<"book_snapshot", "BookSnapshot">>, <<"trade_bar", "TradeBar">>,
      <<"disconnect", "Disconnect">> }

(* C18: decoding dispatches on the "type" tag over a closed set.  The k-th *)
(* frame read, a well-formed text frame, has the k-th item: Ok of the      *)
(* variant the table gives for its tag, carrying its data, or, for a tag   *)
(* outside the table, a Deserialization error; no text frame is dropped.   *)
C18_DispatchOnTypeTag ==
    \A s \in Sessions : \A k \in 1..Len(recv[s]) :
        recv[s][k].kind = "Text" =>
            LET p == recv[s][k].text
            IN  /\ k <= Len(items[s])
                /\ \A e \in TagTable :
                      p.type = e[1] =>
                          items[s][k] = Ok([variant |-> e[2], id |-> p.id])
                /\ (\A e \in TagTable : p.type # e[1]) =>
                      items[s][k] = Err(Deserialization)

C18_Witness ==
    \E s \in Sessions :
        /\ Len(items[s]) = 3
        /\ items[s][1].ok /\ items[s][1].msg.variant = "TradeBar"
        /\ items[s][2].ok /\ items[s][2].msg.variant = "Disconnect"
        /\ recv[s][3].kind = "Text" /\ recv[s][3].text.type = "tradeBar"
        /\ items[s][3] = Err(Deserialization)

(* Reading a connection target back: percent-decoding, and the options of  *)
(* a compact JSON array.                                                   *)
DecodeChar(c) ==
    CASE c = "%5B" -> "["
      [] c = "%5D" -> "]"
      [] c = "%7B" -> "{"
      [] c = "%7D" -> "}"
      [] c = "%2C" -> ","
      [] OTHER -> c

UrlDecode(text) == [i \in 1..Len(text) |-> DecodeChar(text[i])]

Reserved == {"[", "]", "{", "}", ","}

IsOption(c) == c \notin Reserved

IsCompactArray(j) ==
    /\ Len(j) >= 2
    /\ j[1] = "["
    /\ j[Len(j)] = "]"
    /\ \A i \in 2..(Len(j) - 1) :
          CASE (i - 1) % 4 = 1 -> j[i] = "{"
            [] (i - 1) % 4 = 2 -> IsOption(j[i])
            [] (i - 1) % 4 = 3 -> j[i] = "}"
            [] OTHER -> j[i] = ","
    /\ (Len(j) - 2) % 4 = 3

EmbeddedOptions(target) ==
    SelectSeq(UrlDecode(SubSeq(target, 4, Len(target))), IsOption)

(* C19: the target of a connection is the base URL, the path of the        *)
(* operation called (/ws-replay-normalized for replay_normalized,          *)
(* /ws-stream-normalized for stream_normalized, never the other one),      *)
(* "?options=", and the URL-encoded compact JSON array of exactly the      *)
(* options passed.                                                         *)
C19_TargetOfOpen ==
    (lastOpen.op \in {"replay", "stream"} /\ lastOpen.opts # <<>>) =>
        LET t == lastOpen.target
            q == SubSeq(t, 4, Len(t))
        IN  /\ Len(t) > 3
            /\ t[1] = BaseUrl
            /\ lastOpen.op = "replay" => t[2] = "/ws-replay-normalized"
            /\ lastOpen.op = "stream" => t[2] = "/ws-stream-normalized"
            /\ t[3] = "?options="
            /\ \A i \in 1..Len(q) : q[i] \notin Reserved
            /\ IsCompactArray(UrlDecode(q))
            /\ EmbeddedOptions(t) = lastOpen.opts

C19_Witness ==
    /\ lastOpen.op = "stream"
    /\ lastOpen.opts = <<"o2", "o1">>
    /\ lastOpen.target[2] = "/ws-stream-normalized"
    /\ lastOpen.conn.ok
    /\ opens = 2

(* C20: the heartbeat works in periods of 10 seconds.  The k-th send       *)
(* attempt is made in period (k-1) div 3, (k-1) mod 3 seconds after the    *)
(* period began: at most 3 attempts a period, 1 second apart, none between *)
(* the end of a burst and the next period, no overlap of bursts.  The      *)
(* attempt counter of a burst goes 3, 2, 1, 0 and is never negative.       *)
C20_HeartbeatPacing ==
    \A s \in Sessions :
        LET tr == hb[s].tries
        IN  /\ hb[s].count \in 0..3
            /\ \A k \in 1..Len(tr) :
                  tr[k] = tr[1] + 10 * ((k - 1) \div 3) + 1 * ((k - 1) % 3)
            /\ hb[s].pc = "tick1" => hb[s].count = 3 - (Len(tr) % 3)
            /\ hb[s].pc = "tick10" =>
                  (hb[s].count = 0 /\ Len(tr) % 3 = 0)

C20_Witness ==
    \E s \in Sessions :
        /\ gen[s] = "next"
        /\ hb[s].tries = <<0, 1, 2, 10, 11>>
        /\ hb[s].count = 1

(* C21: for every session opened successfully the heartbeat task has been  *)
(* spawned once the open operation has returned the sequence, hence before *)
(* the read loop reads its first frame.                                    *)
C21_HeartbeatSpawnedAtOpen ==
    \A s \in Sessions :
        (s <= nsess /\ gen[s] # "unused") =>
            /\ hb[s].pc # "none"
            /\ recv[s] # <<>> => hb[s].pc # "none"

(* C22: the sequence is single-pass.  Once it has reported its end, every  *)
(* later request reports the end again: no item is yielded, no frame is    *)
(* read, no request stays outstanding, whatever the server still sends.    *)
C22_EndIsFinal ==
    [][\A s \in Sessions :
          gen[s] = "done" =>
              /\ gen'[s] \in {"done", "dropped"}
              /\ items'[s] = items[s]
              /\ recv'[s] = recv[s]
              /\ ~pending'[s]]_vars

C22_Witness ==
    \E s \in Sessions :
        /\ gen[s] = "done"
        /\ ~pending[s]
        /\ Len(recv[s]) = 2
        /\ recv[s][2].kind = "Close"
        /\ FramesRead < MaxFrames
        /\ Len(items[s]) = 1
        /\ AllOk(items[s])

Held == {s \in Sessions : Live(s)}

(* C23: in the caller's retry loop every Err item and every end of the     *)
(* sequence is followed at once by a new open call with the same options,  *)
(* which replaces the old sequence; as long as every open has succeeded    *)
(* the caller holds exactly one sequence and main has not ended.           *)
C23_RetryLoopReopens ==
    [][/\ (nsess > 0 /\ ~MainExited /\ Ended(nsess)) =>
             /\ OpenStep
             /\ lastOpen'.op = "stream"
             /\ lastOpen'.opts = lastOpen.opts
             /\ gen'[nsess] = "dropped"
       /\ (opens' > 0 /\ lastOpen'.err = NoError) =>
             /\ Held' = {nsess'}
             /\ ~MainExited']_vars

C23_Witness ==
    /\ opens = 2
    /\ nsess = 2
    /\ gen[1] = "dropped"
    /\ items[1] # <<>> /\ ~Last(items[1]).ok
    /\ gen[2] = "done"
    /\ AllOk(items[2])
    /\ Len(items[2]) = 1

Running == {s \in Sessions : HeartbeatRunning(s)}

(* C24: across the sessions the retry loop opens one after another, the    *)
(* number of running heartbeat tasks (and of write halves held) never      *)
(* exceeds the number of sequences still live: at most one here, however   *)
(* many reconnects there were.                                             *)
C24_HeartbeatsBoundedByLiveSessions ==
    ~MainExited =>
        /\ Cardinality(Running) <= Cardinality(Held)
        /\ Cardinality({s \in Sessions : WriteHalfHeld(s)})
              <= Cardinality(Held)
        /\ Cardinality(Running) <= 1

(* C25: when reading the next frame fails with a transport error, the      *)
(* sequence yields one Err item carrying that error, its only error item   *)
(* and its last item, and ends: the failed read is the last read.          *)
C25_ReadErrorIsTerminal ==
    \A s \in Sessions : \A k \in 1..Len(recv[s]) :
        recv[s][k].kind = "ReadErr" =>
            /\ k = Len(recv[s])
            /\ items[s] # <<>>
            /\ Last(items[s]) =
                  Err([tag |-> "ConnectFailed", status |-> 0,
                       reason |-> recv[s][k].reason])
            /\ ErrCount(items[s]) = 1
            /\ gen[s] \in {"yTry", "done", "dropped"}
            /\ ~pending[s]

C25_Witness ==
    \E s \in Sessions :
        /\ gen[s] = "done"
        /\ Len(recv[s]) = 2
        /\ recv[s][1].kind = "Text"
        /\ recv[s][2] = ReadErr(<<"reset">>)
        /\ Len(items[s]) = 2
        /\ items[s][1].ok
        /\ items[s][2].err.reason = <<"reset">>
        /\ FramesRead < MaxFrames

(* C26: every outstanding request on a live sequence eventually completes  *)
(* once the socket delivers a text frame, a close frame, a read error or   *)
(* the end, whatever the heartbeat does; and a request completes only by   *)
(* a frame read (or by the drop of the sequence), never by the passing of  *)
(* time.                                                                   *)
C26_RequestsComplete ==
    /\ \A s \in Sessions : pending[s] ~> ~pending[s]
    /\ [][\A s \in Sessions :
             (pending[s] /\ ~pending'[s]) =>
                 (recv'[s] # recv[s] \/ gen'[s] = "dropped")]_vars

C26_Witness ==
    \E s \in Sessions :
        /\ gen[s] = "next"
        /\ ~pending[s]
        /\ hb[s].last = "stalled"
        /\ Len(hb[s].tries) = 3
        /\ Len(recv[s]) = 2
        /\ recv[s][1].kind = "Ping"
        /\ Len(items[s]) = 1
        /\ AllOk(items[s])

LowercaseLetters ==
    {"a", "b", "c", "d", "e", "f", "g", "h", "i", "j", "k", "l", "m",
     "n", "o", "p", "q", "r", "s", "t", "u", "v", "w", "x", "y", "z"}

(* Lowercase words joined by single hyphens.                               *)
IsLowercaseHyphenated(t) ==
    /\ Len(t) > 0
    /\ \A i \in 1..Len(t) : t[i] \in LowercaseLetters \cup {"-"}
    /\ t[1] # "-"
    /\ t[Len(t)] # "-"
    /\ \A i \in 1..(Len(t) - 1) : ~(t[i] = "-" /\ t[i + 1] = "-")

IsLetter(c) == c # "-"

(* C27: the string mapping of Exchange is total and one-to-one.  For every *)
(* member to_string returns, without panicking, a lowercase-hyphenated     *)
(* identifier that spells the member's name; no other member has the same  *)
(* string; deserializing the string gives the member back.                 *)
C27_ExchangeStringRoundTrip ==
    /\ rendered # <<>> =>
          /\ rendered # Panicked
          /\ IsLowercaseHyphenated(rendered)
          /\ SelectSeq(rendered, IsLetter)
                = [i \in 1..Len(ExchangeNames[exchange]) |->
                       ToLowercase(ExchangeNames[exchange][i])]
          /\ \A n \in Members \ {exchange} : ToStringOf(n) # rendered
    /\ parsed # 0 => parsed = exchange

C27_Witness ==
    /\ exchange # 0
    /\ ExchangeNames[exchange] =
          <<"H", "u", "o", "b", "i", "D", "m", "P", "p", "t", "i", "o", "n",
            "s">>
    /\ rendered =
          <<"h", "u", "o", "b", "i", "-", "d", "m", "-", "p", "p", "t", "i",
            "o", "n", "s">>
    /\ parsed = exchange

====
